---- MODULE Spec2Model ----
(***************************************************************************)
(* Model of MHGroveBLE (src/lib/MHGroveBLE/src/MHGroveBLE.cpp): the setup  *)
(* state machine of a Seeed Grove BLE module driven over an unframed       *)
(* serial Stream, with timeout-and-retry response detection.               *)
(*                                                                         *)
(* The controller object and the Stream it talks to are one record `m`;    *)
(* every member function of the class is an operator from such a record    *)
(* to the record after the call.  millis() is the variable `clock`, an     *)
(* unsigned counter of ClockBits bits.  A byte on the Stream is            *)
(* represented by the index of the transmission the device emitted it in   *)
(* answer to (0: unsolicited); the code never looks at a byte's value.     *)
(***************************************************************************)
EXTENDS Integers, Sequences, FiniteSets, TLC

\* ------------------------------------------------------------------------
\* Program constants (MHGroveBLE.cpp:38-40)
kDefaultTimeout == 500
kRetryTimeout == 500
kWaitForDeviceTimeout == 5000

\* ------------------------------------------------------------------------
\* Bounds of the model
Quantum == 500          \* milliseconds the clock advances per Tick
MaxSkips == 1           \* ticks of the run at which the loop does not call runOnce
MaxDrifts == 1          \* calls of runOnce during which the clock ticks
MaxAfter == 2           \* ticks the run is followed after setup has ended
MaxBytes == 2           \* bytes held by the Stream and the receive buffer together
ClockBits == 15         \* width of the millisecond counter

Modulus == 2 ^ ClockBits
\* The clock ticks at most once between two millis() reads of one call.
Drifts == {0, 1}
Names == {"BLE1"}

\* unsigned long arithmetic
Wrap(n) == n % Modulus

\* ------------------------------------------------------------------------
\* enum class InternalState, enum class ResponseState, enum State
InternalState ==
  { "startup", "waitForDeviceAfterStartup", "setName", "setRole",
    "setNotification", "reset", "waitForDeviceAfterReset", "panicked",
    "waitingForConnection", "connected" }

ResponseState == { "receiving", "needRetry", "timedOut", "success" }

State == { "initializing", "waitingForConnection", "connected", "panicked" }

VARIABLES
  internalState,             \* MHGroveBLE::internalState
  retryTime,                 \* MHGroveBLE::retryTime (0: retry disabled)
  timeoutTime,               \* MHGroveBLE::timeoutTime
  rxBuffer,                  \* MHGroveBLE::rxBuffer
  genericNextInternalState,  \* MHGroveBLE::genericNextInternalState
  name,                      \* MHGroveBLE::name
  devIn,                     \* Stream: bytes available() for read()
  devOut,                    \* Stream: every command print()ed so far
  clock,                     \* millis()
  elapsed,                   \* real milliseconds since construction
  idle,                      \* no call of runOnce since the clock last ticked
  hist                       \* observations of the run (record, see Init)

vars == << internalState, retryTime, timeoutTime, rxBuffer,
           genericNextInternalState, name, devIn, devOut, clock, elapsed,
           idle, hist >>

\* The object and its Stream as one value.
Self ==
  [ internalState |-> internalState, retryTime |-> retryTime,
    timeoutTime |-> timeoutTime, rxBuffer |-> rxBuffer,
    genericNextInternalState |-> genericNextInternalState, name |-> name,
    devIn |-> devIn, devOut |-> devOut,
    response |-> "none", events |-> << >> ]

\* ------------------------------------------------------------------------
\* getState taking WaitForDeviceAfterReset for WaitingForConnection.
getState_confused(s) ==
  CASE s = "panicked" -> "panicked"
    [] s \in {"waitingForConnection", "waitForDeviceAfterReset"} ->
         "waitingForConnection"
    [] s = "connected" -> "connected"
    [] OTHER -> "initializing"

\* MHGroveBLE::getState
getState(s) ==
  CASE s = "panicked" -> "panicked"
    [] s = "waitingForConnection" -> "waitingForConnection"
    [] s = "connected" -> "connected"
    [] OTHER -> "initializing"

\* sendCommand with the line end of MHGroveBLE.cpp:150 printed as well.
sendCommand_crlf(m, command) ==
  [ m EXCEPT !.devOut = Append(Append(@, command), "\r\n"), !.rxBuffer = << >>,
             !.events = Append(@, "send") ]

\* sendCommand without the clearing of the receive buffer.
sendCommand_keepBuffer(m, command) ==
  [ m EXCEPT !.devOut = Append(@, command),
             !.events = Append(@, "send") ]

\* MHGroveBLE::sendCommand: print the command, then clear the receive buffer.
sendCommand(m, command) ==
  [ m EXCEPT !.devOut = Append(@, command), !.rxBuffer = << >>,
             !.events = Append(@, "send") ]

\* receiveResponse with the timeout reached only after timeoutTime.
receiveResponse_strictTimeout(m, now, later) ==
  LET timeoutReached == now > m.timeoutTime
      m1 == [ m EXCEPT !.rxBuffer = @ \o m.devIn, !.devIn = << >>,
                       !.events = Append(@, "receive") ]
  IN  IF (m1.retryTime > 0 /\ now >= m1.retryTime) \/ timeoutReached
      THEN IF Len(m1.rxBuffer) > 0
           THEN [ m1 EXCEPT !.response = "success" ]
           ELSE IF timeoutReached
                THEN [ m1 EXCEPT !.response = "timedOut" ]
                ELSE [ m1 EXCEPT !.retryTime = Wrap(later + kRetryTimeout),
                                 !.response = "needRetry" ]
      ELSE [ m1 EXCEPT !.response = "receiving" ]

\* receiveResponse without rescheduling the retry.
receiveResponse_noReschedule(m, now, later) ==
  LET timeoutReached == now >= m.timeoutTime
      m1 == [ m EXCEPT !.rxBuffer = @ \o m.devIn, !.devIn = << >>,
                       !.events = Append(@, "receive") ]
  IN  IF (m1.retryTime > 0 /\ now >= m1.retryTime) \/ timeoutReached
      THEN IF Len(m1.rxBuffer) > 0
           THEN [ m1 EXCEPT !.response = "success" ]
           ELSE IF timeoutReached
                THEN [ m1 EXCEPT !.response = "timedOut" ]
                ELSE [ m1 EXCEPT !.response = "needRetry" ]
      ELSE [ m1 EXCEPT !.response = "receiving" ]

\* receiveResponse without the test that the retry is enabled.
receiveResponse_retryAlways(m, now, later) ==
  LET timeoutReached == now >= m.timeoutTime
      m1 == [ m EXCEPT !.rxBuffer = @ \o m.devIn, !.devIn = << >>,
                       !.events = Append(@, "receive") ]
  IN  IF now >= m1.retryTime \/ timeoutReached
      THEN IF Len(m1.rxBuffer) > 0
           THEN [ m1 EXCEPT !.response = "success" ]
           ELSE IF timeoutReached
                THEN [ m1 EXCEPT !.response = "timedOut" ]
                ELSE [ m1 EXCEPT !.retryTime = Wrap(later + kRetryTimeout),
                                 !.response = "needRetry" ]
      ELSE [ m1 EXCEPT !.response = "receiving" ]

\* receiveResponse returning Success as soon as the buffer holds a byte.
receiveResponse_eagerSuccess(m, now, later) ==
  LET timeoutReached == now >= m.timeoutTime
      m1 == [ m EXCEPT !.rxBuffer = @ \o m.devIn, !.devIn = << >>,
                       !.events = Append(@, "receive") ]
  IN  IF Len(m1.rxBuffer) > 0
      THEN [ m1 EXCEPT !.response = "success" ]
      ELSE IF (m1.retryTime > 0 /\ now >= m1.retryTime) \/ timeoutReached
           THEN IF timeoutReached
                THEN [ m1 EXCEPT !.response = "timedOut" ]
                ELSE [ m1 EXCEPT !.retryTime = Wrap(later + kRetryTimeout),
                                 !.response = "needRetry" ]
           ELSE [ m1 EXCEPT !.response = "receiving" ]

\* receiveResponse classifying before it reads the Stream.
receiveResponse_classifyFirst(m, now, later) ==
  LET timeoutReached == now >= m.timeoutTime
      m1 == [ m EXCEPT !.rxBuffer = @ \o m.devIn, !.devIn = << >>,
                       !.events = Append(@, "receive") ]
  IN  IF (m1.retryTime > 0 /\ now >= m1.retryTime) \/ timeoutReached
      THEN IF Len(m.rxBuffer) > 0
           THEN [ m1 EXCEPT !.response = "success" ]
           ELSE IF timeoutReached
                THEN [ m1 EXCEPT !.response = "timedOut" ]
                ELSE [ m1 EXCEPT !.retryTime = Wrap(later + kRetryTimeout),
                                 !.response = "needRetry" ]
      ELSE [ m1 EXCEPT !.response = "receiving" ]

\* MHGroveBLE::receiveResponse.  `now` is the millis() read at its start,
\* `later` the millis() read when the retry is rescheduled.  The result is
\* left in field `response`.
receiveResponse(m, now, later) ==
  LET timeoutReached == now >= m.timeoutTime
      m1 == [ m EXCEPT !.rxBuffer = @ \o m.devIn, !.devIn = << >>,
                       !.events = Append(@, "receive") ]
  IN  IF (m1.retryTime > 0 /\ now >= m1.retryTime) \/ timeoutReached
      THEN IF Len(m1.rxBuffer) > 0
           THEN [ m1 EXCEPT !.response = "success" ]
           ELSE IF timeoutReached
                THEN [ m1 EXCEPT !.response = "timedOut" ]
                ELSE [ m1 EXCEPT !.retryTime = Wrap(later + kRetryTimeout),
                                 !.response = "needRetry" ]
      ELSE [ m1 EXCEPT !.response = "receiving" ]

\* transitionToState not setting the state to enter after SetRole.
transitionToState_staleNext(m, nextState, now) ==
  LET armed ==
        CASE nextState = "waitForDeviceAfterStartup" ->
               [ sendCommand(m, "AT") EXCEPT
                   !.retryTime = Wrap(now + kRetryTimeout),
                   !.timeoutTime = Wrap(now + kWaitForDeviceTimeout) ]
          [] nextState = "setName" ->
               [ sendCommand(m, "AT+NAME" \o m.name) EXCEPT
                   !.retryTime = 0,
                   !.timeoutTime = Wrap(now + kDefaultTimeout),
                   !.genericNextInternalState = "setRole" ]
          [] nextState = "setRole" ->
               [ sendCommand(m, "AT+ROLE0") EXCEPT
                   !.retryTime = 0,
                   !.timeoutTime = Wrap(now + kDefaultTimeout) ]
          [] nextState = "setNotification" ->
               [ sendCommand(m, "AT+NOTI1") EXCEPT
                   !.retryTime = 0,
                   !.timeoutTime = Wrap(now + kDefaultTimeout),
                   !.genericNextInternalState = "reset" ]
          [] nextState = "reset" ->
               [ sendCommand(m, "AT+RESET") EXCEPT
                   !.retryTime = 0,
                   !.timeoutTime = Wrap(now + kDefaultTimeout) ]
          [] nextState = "waitForDeviceAfterReset" ->
               [ sendCommand(m, "AT") EXCEPT
                   !.retryTime = Wrap(now + kRetryTimeout),
                   !.timeoutTime = Wrap(now + kWaitForDeviceTimeout) ]
          [] OTHER -> m
  IN  [ armed EXCEPT !.internalState = nextState,
                     !.events = Append(@, "transition") ]

\* MHGroveBLE::transitionToState.  `now` is the millis() read at its start.
transitionToState(m, nextState, now) ==
  LET armed ==
        CASE nextState = "waitForDeviceAfterStartup" ->
               [ sendCommand(m, "AT") EXCEPT
                   !.retryTime = Wrap(now + kRetryTimeout),
                   !.timeoutTime = Wrap(now + kWaitForDeviceTimeout) ]
          [] nextState = "setName" ->
               [ sendCommand(m, "AT+NAME" \o m.name) EXCEPT
                   !.retryTime = 0,
                   !.timeoutTime = Wrap(now + kDefaultTimeout),
                   !.genericNextInternalState = "setRole" ]
          [] nextState = "setRole" ->
               [ sendCommand(m, "AT+ROLE0") EXCEPT
                   !.retryTime = 0,
                   !.timeoutTime = Wrap(now + kDefaultTimeout),
                   !.genericNextInternalState = "setNotification" ]
          [] nextState = "setNotification" ->
               [ sendCommand(m, "AT+NOTI1") EXCEPT
                   !.retryTime = 0,
                   !.timeoutTime = Wrap(now + kDefaultTimeout),
                   !.genericNextInternalState = "reset" ]
          [] nextState = "reset" ->
               [ sendCommand(m, "AT+RESET") EXCEPT
                   !.retryTime = 0,
                   !.timeoutTime = Wrap(now + kDefaultTimeout) ]
          [] nextState = "waitForDeviceAfterReset" ->
               [ sendCommand(m, "AT") EXCEPT
                   !.retryTime = Wrap(now + kRetryTimeout),
                   !.timeoutTime = Wrap(now + kWaitForDeviceTimeout) ]
          [] OTHER -> m
  IN  [ armed EXCEPT !.internalState = nextState,
                     !.events = Append(@, "transition") ]

\* panic disarming both deadlines.
panic_disarm(m, now) ==
  [ transitionToState(m, "panicked", now) EXCEPT
      !.retryTime = 0, !.timeoutTime = 0 ]

\* MHGroveBLE::panic
panic(m, now) == transitionToState(m, "panicked", now)

\* handleWaitForDevice entering its state again on NeedRetry.
handleWaitForDevice_rearm(m, now, later) ==
  LET r == receiveResponse(m, now, later)
  IN  CASE r.response = "receiving" -> r
        [] r.response = "needRetry" ->
             transitionToState(r, r.internalState, later)
        [] r.response = "timedOut" -> panic(r, later)
        [] r.response = "success" ->
             CASE r.internalState = "waitForDeviceAfterStartup" ->
                    transitionToState(r, "setName", later)
               [] r.internalState = "waitForDeviceAfterReset" ->
                    transitionToState(r, "waitingForConnection", later)
               [] OTHER -> panic(r, later)

\* handleWaitForDevice with the case of Receiving falling through into the
\* case of NeedRetry.
handleWaitForDevice_fallThrough(m, now, later) ==
  LET r == receiveResponse(m, now, later)
  IN  CASE r.response \in {"receiving", "needRetry"} -> sendCommand(r, "AT")
        [] r.response = "timedOut" -> panic(r, later)
        [] r.response = "success" ->
             CASE r.internalState = "waitForDeviceAfterStartup" ->
                    transitionToState(r, "setName", later)
               [] r.internalState = "waitForDeviceAfterReset" ->
                    transitionToState(r, "waitingForConnection", later)
               [] OTHER -> panic(r, later)

\* handleWaitForDevice without the case of WaitForDeviceAfterReset.
handleWaitForDevice_noResetCase(m, now, later) ==
  LET r == receiveResponse(m, now, later)
  IN  CASE r.response = "receiving" -> r
        [] r.response = "needRetry" -> sendCommand(r, "AT")
        [] r.response = "timedOut" -> panic(r, later)
        [] r.response = "success" ->
             CASE r.internalState = "waitForDeviceAfterStartup" ->
                    transitionToState(r, "setName", later)
               [] OTHER -> panic(r, later)

\* MHGroveBLE::handleWaitForDevice
handleWaitForDevice(m, now, later) ==
  LET r == receiveResponse(m, now, later)
  IN  CASE r.response = "receiving" -> r
        [] r.response = "needRetry" -> sendCommand(r, "AT")
        [] r.response = "timedOut" -> panic(r, later)
        [] r.response = "success" ->
             CASE r.internalState = "waitForDeviceAfterStartup" ->
                    transitionToState(r, "setName", later)
               [] r.internalState = "waitForDeviceAfterReset" ->
                    transitionToState(r, "waitingForConnection", later)
               [] OTHER -> panic(r, later)

\* handleGenericCommand waiting on after TimedOut.
handleGenericCommand_ignoresTimeout(m, now, later) ==
  LET r == receiveResponse(m, now, later)
  IN  CASE r.response \in {"receiving", "timedOut"} -> r
        [] r.response = "needRetry" -> panic(r, later)
        [] r.response = "success" ->
             transitionToState(r, r.genericNextInternalState, later)

\* MHGroveBLE::handleGenericCommand
handleGenericCommand(m, now, later) ==
  LET r == receiveResponse(m, now, later)
  IN  CASE r.response = "receiving" -> r
        [] r.response \in {"needRetry", "timedOut"} -> panic(r, later)
        [] r.response = "success" ->
             transitionToState(r, r.genericNextInternalState, later)

\* handleReset treating a timeout as handleGenericCommand does.
handleReset_timeoutPanics(m, now, later) ==
  LET r == receiveResponse(m, now, later)
  IN  CASE r.response = "receiving" -> r
        [] r.response \in {"needRetry", "timedOut"} -> panic(r, later)
        [] r.response = "success" ->
             transitionToState(r, "waitForDeviceAfterReset", later)

\* MHGroveBLE::handleReset
handleReset(m, now, later) ==
  LET r == receiveResponse(m, now, later)
  IN  CASE r.response = "receiving" -> r
        [] r.response = "needRetry" -> panic(r, later)
        [] r.response \in {"timedOut", "success"} ->
             transitionToState(r, "waitForDeviceAfterReset", later)

\* runOnce with the case of Startup falling through into the wait states'.
runOnce_startupFallsThrough(m, now, later) ==
  CASE m.internalState = "startup" ->
         handleWaitForDevice(
           transitionToState(m, "waitForDeviceAfterStartup", now), now, later)
    [] m.internalState \in {"waitForDeviceAfterStartup",
                            "waitForDeviceAfterReset"} ->
         handleWaitForDevice(m, now, later)
    [] m.internalState \in {"setName", "setRole", "setNotification"} ->
         handleGenericCommand(m, now, later)
    [] m.internalState = "reset" -> handleReset(m, now, later)
    [] OTHER -> m

\* runOnce with WaitingForConnection handled by the handler of the wait
\* states.
runOnce_waitingPolls(m, now, later) ==
  CASE m.internalState = "startup" ->
         transitionToState(m, "waitForDeviceAfterStartup", now)
    [] m.internalState \in {"waitForDeviceAfterStartup",
                            "waitForDeviceAfterReset",
                            "waitingForConnection"} ->
         handleWaitForDevice(m, now, later)
    [] m.internalState \in {"setName", "setRole", "setNotification"} ->
         handleGenericCommand(m, now, later)
    [] m.internalState = "reset" -> handleReset(m, now, later)
    [] OTHER -> m

\* runOnce with Panicked handled by the handler of the wait states.
runOnce_panickedPolls(m, now, later) ==
  CASE m.internalState = "startup" ->
         transitionToState(m, "waitForDeviceAfterStartup", now)
    [] m.internalState \in {"waitForDeviceAfterStartup",
                            "waitForDeviceAfterReset", "panicked"} ->
         handleWaitForDevice(m, now, later)
    [] m.internalState \in {"setName", "setRole", "setNotification"} ->
         handleGenericCommand(m, now, later)
    [] m.internalState = "reset" -> handleReset(m, now, later)
    [] OTHER -> m

\* MHGroveBLE::runOnce
runOnce(m, now, later) ==
  CASE m.internalState = "startup" ->
         transitionToState(m, "waitForDeviceAfterStartup", now)
    [] m.internalState \in {"waitForDeviceAfterStartup",
                            "waitForDeviceAfterReset"} ->
         handleWaitForDevice(m, now, later)
    [] m.internalState \in {"setName", "setRole", "setNotification"} ->
         handleGenericCommand(m, now, later)
    [] m.internalState = "reset" -> handleReset(m, now, later)
    [] OTHER -> m

\* ------------------------------------------------------------------------
\* Values an uninitialised member may hold after construction.
Indeterminate == {0, Modulus - 1}

\* The states in which runOnce waits for the answer to a command.
CommandStates ==
  { "waitForDeviceAfterStartup", "setName", "setRole", "setNotification",
    "reset", "waitForDeviceAfterReset" }

\* Setup has ended: runOnce does nothing any more.
Ended == internalState \in {"panicked", "waitingForConnection", "connected"}

\* The earlier of the deadlines armed for the pending command.
FirstDeadline == IF retryTime > 0 THEN retryTime ELSE timeoutTime

\* MHGroveBLE::MHGroveBLE, with millis() at `start`.  `hist` records what an
\* observer of the run has seen; the program reads none of it.
Constructed(start) ==
  /\ internalState = "startup"
  /\ retryTime \in Indeterminate
  /\ timeoutTime \in Indeterminate
  /\ genericNextInternalState \in {"startup", "panicked"}
  /\ rxBuffer = << >>
  /\ name \in Names
  /\ devIn = << >>
  /\ devOut = << >>
  /\ clock = start
  /\ elapsed = 0
  /\ idle = TRUE
  /\ hist = [ response |-> "none",    \* result of receiveResponse in the last call
              polledIn |-> "none",    \* internalState at the start of the last call
              events |-> << >>,       \* what the last call did, in order
              lastPollAt |-> -1,      \* elapsed at the start of the last call
              t0 |-> -1,              \* elapsed at the start of the first call
              fresh |-> FALSE,        \* last call: the buffer was empty and bytes were read
              waited |-> 0,           \* last call: time since the polled command was sent
              held |-> 0,             \* last call: time since the polled state was entered
              lastTxAt |-> -1,        \* elapsed when the last command was sent
              enteredAt |-> -1,       \* elapsed when the last command state was entered
              retx |-> 0,             \* retransmissions in the last command state
              heard |-> FALSE,        \* a byte reached the Stream for the last command state
              answered |-> FALSE,     \* a byte was delivered since the last transmission
              timely |-> TRUE,        \* every first deadline so far was preceded by a byte
              silent |-> TRUE,        \* the device has not delivered any byte
              successes |-> 0,        \* transitions made on "success"
              trail |-> << "startup" >>,  \* the internal states, in order
              skips |-> 0,            \* ticks without a call of runOnce
              drifts |-> 0,           \* calls during which the clock ticked
              after |-> 0 ]           \* ticks since setup ended

Init == Constructed(0)

\* Clock values from which the counter wraps during setup.
WrapStarts ==
  { Modulus - kRetryTimeout, Modulus - kWaitForDeviceTimeout,
    Modulus - 3 * kRetryTimeout }

InitAny == \E start \in {0} \cup WrapStarts : Constructed(start)

\* What the observer records of a call of runOnce that took `drift` ticks
\* and left the object as r.
Observe(r, drift) ==
  LET sent == \E i \in 1..Len(r.events) : r.events[i] = "send"
      moved == r.internalState # internalState
      armed == moved /\ r.internalState \in CommandStates
      endAt == elapsed + drift * Quantum
  IN  [ hist EXCEPT
          !.response = r.response,
          !.polledIn = internalState,
          !.events = r.events,
          !.lastPollAt = elapsed,
          !.t0 = IF @ < 0 THEN elapsed ELSE @,
          !.fresh = /\ internalState \in CommandStates
                    /\ Len(rxBuffer) = 0 /\ Len(devIn) > 0,
          !.waited = IF internalState \in CommandStates
                     THEN elapsed - hist.lastTxAt ELSE @,
          !.held = IF internalState \in CommandStates
                   THEN elapsed - hist.enteredAt ELSE @,
          !.lastTxAt = IF sent THEN endAt ELSE @,
          !.enteredAt = IF armed THEN endAt ELSE @,
          !.retx = IF armed THEN 0 ELSE IF sent THEN @ + 1 ELSE @,
          !.heard = IF armed THEN Len(r.devIn) > 0 ELSE @,
          !.answered = IF sent THEN FALSE ELSE @,
          !.successes = IF moved /\ r.response = "success" THEN @ + 1 ELSE @,
          !.trail = IF moved THEN Append(@, r.internalState) ELSE @,
          !.drifts = @ + drift ]

\* The loop calls runOnce; the clock advances by drift ticks between the
\* millis() read at the start of the call and the later reads.  A tick
\* during the call is followed only in calls that read millis() again.
Poll(drift) ==
  /\ LET now == clock
         later == Wrap(clock + drift * Quantum)
         r == runOnce(Self, now, later)
     IN  /\ drift > 0 => /\ hist.drifts < MaxDrifts
                         /\ r.response \in {"needRetry", "timedOut", "success"}
         /\ internalState' = r.internalState
         /\ retryTime' = r.retryTime
         /\ timeoutTime' = r.timeoutTime
         /\ rxBuffer' = r.rxBuffer
         /\ genericNextInternalState' = r.genericNextInternalState
         /\ devIn' = r.devIn
         /\ devOut' = r.devOut
         /\ clock' = later
         /\ elapsed' = elapsed + drift * Quantum
         /\ idle' = FALSE
         /\ hist' = Observe(r, drift)
  /\ UNCHANGED name

\* One tick of the millisecond clock passes.
Tick ==
  /\ idle => hist.skips < MaxSkips
  /\ hist.after < MaxAfter
  /\ clock' = Wrap(clock + Quantum)
  /\ elapsed' = elapsed + Quantum
  /\ idle' = TRUE
  /\ hist' = [ hist EXCEPT
                 !.skips = IF idle THEN @ + 1 ELSE @,
                 !.after = IF Ended THEN @ + 1 ELSE @,
                 !.timely = @ /\ ~ ( /\ internalState \in CommandStates
                                    /\ ~ hist.answered
                                    /\ Wrap(clock + Quantum) >= FirstDeadline ) ]
  /\ UNCHANGED << internalState, retryTime, timeoutTime, rxBuffer,
                  genericNextInternalState, name, devIn, devOut >>

\* Transmissions the device may answer now: the last one, or the one before
\* it (a late answer); 0 before any transmission (an unsolicited byte).
Answerable == { k \in {Len(devOut) - 1, Len(devOut)} : k >= 0 }

\* The device puts a byte on the Stream, in answer to transmission k.  Of
\* the MaxBytes bytes, at most MaxBytes - 1 are unsolicited.
Deliver(k) ==
  /\ Len(devIn) + Len(rxBuffer) < MaxBytes - (IF k = 0 THEN 1 ELSE 0)
  /\ devIn' = Append(devIn, k)
  /\ hist' = [ hist EXCEPT
                 !.silent = FALSE,
                 !.heard = IF Ended THEN @ ELSE TRUE,
                 !.answered = IF internalState \in CommandStates THEN TRUE ELSE @ ]
  /\ UNCHANGED << internalState, retryTime, timeoutTime, rxBuffer,
                  genericNextInternalState, name, devOut, clock, elapsed,
                  idle >>

Next ==
  \/ \E drift \in Drifts : Poll(drift)
  \/ Tick
  \/ \E k \in Answerable : Deliver(k)

Spec == Init /\ [][Next]_vars

\* Any start value of the counter, including those from which it wraps.
SpecWrap == InitAny /\ [][Next]_vars

\* A tick before which the device has answered the pending command, if the
\* tick reaches that command's first deadline.
TickTimely == Tick /\ hist'.timely

NextTimely ==
  \/ \E drift \in Drifts : Poll(drift)
  \/ TickTimely
  \/ \E k \in Answerable : Deliver(k)

\* The runs in which the device answers every transmission before the
\* command's first deadline, the loop keeps calling runOnce and the clock
\* keeps ticking.
SpecTimely ==
  /\ Init /\ [][NextTimely]_vars
  /\ WF_vars(\E drift \in Drifts : Poll(drift))
  /\ WF_vars(TickTimely)
  /\ WF_vars(\E k \in Answerable : Deliver(k))

\* runOnce called with the clock standing still during the call.
PollSteady == Poll(0)

\* A tick that follows a call of runOnce.
TickSteady == Tick /\ ~ idle

NextSteady ==
  \/ PollSteady
  \/ TickSteady
  \/ \E k \in Answerable : Deliver(k)

\* The runs in which the loop calls runOnce at every tick of a clock that
\* keeps ticking, with a device that delivers any bytes at any moments.
SpecSteady ==
  /\ Init /\ [][NextSteady]_vars
  /\ WF_vars(PollSteady)
  /\ WF_vars(TickSteady)

TypeOK ==
  /\ internalState \in InternalState
  /\ retryTime \in 0..(Modulus - 1)
  /\ timeoutTime \in 0..(Modulus - 1)
  /\ clock \in 0..(Modulus - 1)

\* ------------------------------------------------------------------------
\* Vocabulary of the properties

\* The order of the setup states (transition table).
SetupOrder ==
  << "startup", "waitForDeviceAfterStartup", "setName", "setRole",
     "setNotification", "reset", "waitForDeviceAfterReset",
     "waitingForConnection" >>

\* The commands of a setup without retransmission, for device name n.
Expected(n) ==
  << "AT", "AT+NAME" \o n, "AT+ROLE0", "AT+NOTI1", "AT+RESET", "AT" >>

IsPrefix(s, t) == Len(s) <= Len(t) /\ s = SubSeq(t, 1, Len(s))

\* runOnce was called at every tick and the clock never ticked during a call.
Steady == hist.skips = 0 /\ hist.drifts = 0

\* The state the controller panicked from.
PanickedFrom ==
  IF internalState = "panicked" THEN hist.trail[Len(hist.trail) - 1] ELSE "none"

WaitStates == { "waitForDeviceAfterStartup", "waitForDeviceAfterReset" }

\* ------------------------------------------------------------------------
\* C1: from a fresh controller, if a byte is delivered after every
\* transmission before that command's first deadline, the controller never
\* is Panicked, is in WaitingForConnection only after exactly six
\* transitions made on Success, through the setup states in table order, and
\* does reach WaitingForConnection when runOnce keeps being called and time
\* advances.
C1_Progression ==
  /\ [](hist.timely => internalState # "panicked")
  /\ [](hist.timely => IsPrefix(hist.trail, SetupOrder)
                       /\ hist.successes = Len(hist.trail) - 2 + (IF Len(hist.trail) = 1 THEN 1 ELSE 0))
  /\ [](hist.timely /\ internalState = "waitingForConnection"
          => hist.successes = 6)
  /\ <>(~ hist.timely \/ internalState = "waitingForConnection")

C1_Witness ==
  /\ hist.timely
  /\ internalState = "waitingForConnection"
  /\ hist.successes = 6
  /\ hist.trail = SetupOrder

\* C2: with a device name N and a byte delivered after every write before
\* the 500 ms window ends, the commands written are a prefix of AT,
\* AT+NAME<N>, AT+ROLE0, AT+NOTI1, AT+RESET, AT at every moment, they are
\* exactly that sequence from the moment WaitingForConnection is observed,
\* and the run ends with WaitingForConnection observed and nothing more
\* written.
C2_CommandSequence ==
  /\ [](hist.timely => IsPrefix(devOut, Expected(name)))
  /\ [](hist.timely /\ getState(internalState) = "waitingForConnection"
          => devOut = Expected(name))
  /\ <>[](~ hist.timely \/ ( /\ getState(internalState) = "waitingForConnection"
                             /\ devOut = Expected(name) ))

C2_Witness ==
  /\ hist.timely
  /\ getState(internalState) = "waitingForConnection"
  /\ devOut = Expected(name)
  /\ hist.polledIn = "waitingForConnection"
  /\ hist.after = MaxAfter

\* C3: while the device has not delivered any byte (clock not wrapping),
\* Panicked is observed exactly when a call of runOnce has been made at or
\* after 5000 ms from the first call: not after a call made earlier, and
\* after the first call made at that time or later.
C3_TimeoutEscalation ==
  hist.silent /\ hist.t0 >= 0 =>
    ( getState(internalState) = "panicked"
        <=> hist.lastPollAt >= hist.t0 + kWaitForDeviceTimeout )

C3_Witness ==
  /\ hist.silent
  /\ getState(internalState) = "panicked"
  /\ hist.lastPollAt >= hist.t0 + kWaitForDeviceTimeout
  /\ hist.polledIn = "waitForDeviceAfterStartup"

\* C4 as stated: with a silent device and runOnce called at every tick, AT
\* is resent exactly every retry interval and ten times before the wait
\* state panics.
C4_TenRetransmissions ==
  Steady =>
    /\ hist.response = "needRetry" => hist.waited = kRetryTimeout
    /\ PanickedFrom \in WaitStates /\ ~ hist.heard
         => hist.retx = kWaitForDeviceTimeout \div kRetryTimeout

\* C4 amended: with a silent device and runOnce called at every tick, AT is
\* resent at the first tick at or after one retry interval since it was
\* last sent (every 500 ms exactly on a 1 ms clock), and nine times before
\* the wait state panics: floor(5000 / 500) transmissions in all, the one
\* made on entering the state included.
C4_RetryCadence ==
  Steady =>
    /\ hist.response = "needRetry"
         => /\ hist.waited >= kRetryTimeout
            /\ hist.waited < kRetryTimeout + Quantum
    /\ PanickedFrom \in WaitStates /\ ~ hist.heard
         => hist.retx = (kWaitForDeviceTimeout \div kRetryTimeout) - 1

C4_Witness ==
  /\ Steady
  /\ PanickedFrom = "waitForDeviceAfterReset"
  /\ ~ hist.heard
  /\ hist.retx = 9

\* ------------------------------------------------------------------------
\* C5: Panicked is a sink: a step taken in Panicked (a call of runOnce at
\* any clock value and with any bytes pending, a tick, a delivery) leaves
\* the state Panicked and observed as Panicked, writes nothing, reads
\* nothing from the Stream, and leaves both deadlines and the receive
\* buffer unchanged.
C5_PanickedIsSink ==
  [][ internalState = "panicked" =>
        /\ internalState' = "panicked"
        /\ getState(internalState') = "panicked"
        /\ devOut' = devOut
        /\ IsPrefix(devIn, devIn')
        /\ retryTime' = retryTime
        /\ timeoutTime' = timeoutTime
        /\ rxBuffer' = rxBuffer ]_vars

C5_Witness ==
  /\ internalState = "panicked"
  /\ hist.polledIn = "panicked"
  /\ Len(devIn) > 0
  /\ hist.after > 0

\* C6: in Reset, a call of runOnce whose response is TimedOut does what one
\* whose response is Success does: it sends AT, arms the 500 ms retry and
\* the 5000 ms timeout and enters WaitForDeviceAfterReset; Reset is never
\* left for any other state.
C6_ResetTimeoutAdvances ==
  [][ /\ ( /\ internalState = "reset"
           /\ hist'.polledIn = "reset"
           /\ hist'.response \in {"timedOut", "success"}
           => /\ internalState' = "waitForDeviceAfterReset"
              /\ devOut' = Append(devOut, "AT")
              /\ rxBuffer' = << >>
              /\ retryTime' = Wrap(clock' + kRetryTimeout)
              /\ timeoutTime' = Wrap(clock' + kWaitForDeviceTimeout) )
      /\ ( internalState = "reset" /\ internalState' # "reset"
           => internalState' = "waitForDeviceAfterReset" ) ]_vars

\* Reset timed out and the answer to AT+RESET arrived afterwards.
C6_Witness ==
  /\ internalState = "waitForDeviceAfterReset"
  /\ hist.polledIn = "reset"
  /\ hist.response = "timedOut"
  /\ devIn = << Len(devOut) - 1 >>

\* No "receive" follows a "send" in the events of one call.
SendIsLast(ev) ==
  \A i \in 1..Len(ev) : \A j \in 1..Len(ev) :
    i < j /\ ev[i] = "send" => ev[j] # "receive"

\* C7: every step that writes a command (on entering a state, and on
\* resending AT after NeedRetry) leaves the receive buffer empty, and in
\* that call receiveResponse does not run after the command was sent.
C7_BufferHygiene ==
  [][ devOut' # devOut =>
        /\ rxBuffer' = << >>
        /\ SendIsLast(hist'.events) ]_vars

C7_Witness ==
  /\ hist.response = "success"
  /\ hist.events = << "receive", "send", "transition" >>
  /\ rxBuffer = << >>
  /\ Len(devOut) > 1

NoRetryStates == { "setName", "setRole", "setNotification", "reset" }

\* C8: in SetName, SetRole, SetNotification and Reset the retry deadline is
\* disabled and receiveResponse returns Receiving, Success or TimedOut,
\* never NeedRetry, whatever the clock and the bytes.
C8_NoRetryWhenDisabled ==
  /\ internalState \in NoRetryStates => retryTime = 0
  /\ hist.polledIn \in NoRetryStates
       => hist.response \in {"receiving", "success", "timedOut"}

C8_Witness ==
  /\ hist.polledIn = "setNotification"
  /\ hist.response = "timedOut"
  /\ internalState = "panicked"

\* The windows of the command polled in the last call.
RetryWindow(st) == IF st \in WaitStates THEN kRetryTimeout ELSE kDefaultTimeout
TimeoutWindow(st) ==
  IF st \in WaitStates THEN kWaitForDeviceTimeout ELSE kDefaultTimeout

\* C9: wraparound of the counter is tolerated: a command is not classified
\* Success or NeedRetry before its retry window or its timeout has really
\* elapsed, not TimedOut before its timeout has really elapsed, and is
\* classified (not Receiving) by a call made once they have.
C9_WrapTolerated ==
  hist.polledIn \in CommandStates =>
    /\ hist.response \in {"success", "needRetry"}
         => \/ hist.waited >= RetryWindow(hist.polledIn)
            \/ hist.held >= TimeoutWindow(hist.polledIn)
    /\ hist.response = "timedOut"
         => hist.held >= TimeoutWindow(hist.polledIn)
    /\ hist.response = "receiving"
         => /\ hist.waited < RetryWindow(hist.polledIn)
            /\ hist.held < TimeoutWindow(hist.polledIn)

SetupStates ==
  { "startup", "waitForDeviceAfterStartup", "setName", "setRole",
    "setNotification", "reset", "waitForDeviceAfterReset" }

\* C10: getState reports Panicked, WaitingForConnection and Connected
\* exactly for the internal states of these names and Initializing exactly
\* for the seven setup states, and the reported state never is Initializing
\* again once it was something else.
C10_ObservableState ==
  /\ []( /\ getState(internalState) = "panicked" <=> internalState = "panicked"
         /\ getState(internalState) = "waitingForConnection"
              <=> internalState = "waitingForConnection"
         /\ getState(internalState) = "connected" <=> internalState = "connected"
         /\ getState(internalState) = "initializing"
              <=> internalState \in SetupStates )
  /\ [][ getState(internalState) # "initializing"
           => getState(internalState') # "initializing" ]_vars

C10_Witness ==
  /\ getState(internalState) = "waitingForConnection"
  /\ hist.polledIn = "waitingForConnection"
  /\ hist.trail = SetupOrder

\* ------------------------------------------------------------------------
\* A step that is a call of runOnce: the clock has not ticked after it and
\* no byte was added to the Stream.
PollStep == ~ idle' /\ Len(devIn') <= Len(devIn)

\* A step taken in WaitingForConnection or Connected.
SteadyStep ==
  internalState \in {"waitingForConnection", "connected"} =>
    /\ internalState' = internalState
    /\ devOut' = devOut
    /\ IsPrefix(devIn, devIn')
    /\ retryTime' = retryTime
    /\ timeoutTime' = timeoutTime
    /\ rxBuffer' = rxBuffer
    /\ (PollStep => hist'.events = << >>)

\* C11: WaitingForConnection and Connected are steady: a call of runOnce in
\* them does not run receiveResponse, and no step from them writes a
\* command, takes a byte from the Stream, or changes the state, the
\* deadlines or the receive buffer; Connected never is the current state.
C11_SteadyStates ==
  /\ [][SteadyStep]_vars
  /\ [](internalState # "connected")

\* WaitingForConnection, polled with bytes pending after the last deadline.
C11_Witness ==
  /\ internalState = "waitingForConnection"
  /\ hist.polledIn = "waitingForConnection"
  /\ hist.events = << >>
  /\ Len(devIn) > 0
  /\ clock >= timeoutTime
  /\ ~ idle

\* The outcome of poll_response for clock value now, deadlines retry (0:
\* absent) and timeout, and the buffer as it is after draining the Stream.
Classified(now, retry, timeout, buffer) ==
  CASE ((retry > 0 /\ now >= retry) \/ now >= timeout) /\ Len(buffer) > 0
         -> "success"
    [] now >= timeout /\ Len(buffer) = 0 -> "timedOut"
    [] retry > 0 /\ now >= retry /\ now < timeout /\ Len(buffer) = 0
         -> "needRetry"
    [] OTHER -> "receiving"

\* A call of runOnce in a command state, against the claim's table.
ClassifyStep ==
  PollStep /\ internalState \in CommandStates =>
    /\ hist'.response =
         Classified(clock, retryTime, timeoutTime, rxBuffer \o devIn)
    /\ devIn' = << >>

\* C12: a call of runOnce in a command state classifies the response as
\* the claim's table says, from the clock, the two deadlines and the
\* receive buffer extended by the bytes pending on the Stream; all pending
\* bytes are taken from the Stream.
C12_Classification == [][ClassifyStep]_vars

\* Success on bytes that were all read in the call made at the deadline.
C12_Witness ==
  /\ hist.response = "success"
  /\ hist.fresh
  /\ hist.waited >= kDefaultTimeout
  /\ hist.waited < kDefaultTimeout + Quantum
  /\ hist.polledIn = "setRole"

\* A call of runOnce in a wait state that classifies NeedRetry.
RetryStep ==
  PollStep /\ internalState \in WaitStates /\ hist'.response = "needRetry" =>
    /\ devOut' = Append(devOut, "AT")
    /\ retryTime' = Wrap(clock' + kRetryTimeout)
    /\ internalState' = internalState
    /\ timeoutTime' = timeoutTime

\* C13: a call of runOnce that classifies NeedRetry in a wait state writes
\* AT exactly once, sets the retry deadline to the clock read at that
\* moment plus 500 ms, and leaves the state and the timeout deadline as
\* they were.
C13_RetryStep == [][RetryStep]_vars

\* The third resend of AT after the reset, the timeout still the one armed
\* on entering the state.
C13_Witness ==
  /\ hist.response = "needRetry"
  /\ hist.polledIn = "waitForDeviceAfterReset"
  /\ internalState = "waitForDeviceAfterReset"
  /\ hist.retx = 3
  /\ devOut[Len(devOut)] = "AT"

\* The retry deadline a command has when its state was entered at `t`.
RetryArmed(st, t) == IF st \in WaitStates THEN Wrap(t + kRetryTimeout) ELSE 0

\* A step that writes no command keeps the bytes of the buffer and both
\* deadlines.
QuietStep ==
  devOut' = devOut =>
    /\ IsPrefix(rxBuffer, rxBuffer')
    /\ retryTime' = retryTime
    /\ timeoutTime' = timeoutTime

\* C14 as stated: every step that writes a command (a resend of AT
\* included) clears the buffer and arms both deadlines anew, and a step that
\* writes none keeps the buffer's bytes and both deadlines.
C14_ResetOnTransmit ==
  [][ /\ devOut' # devOut =>
           /\ rxBuffer' = << >>
           /\ retryTime' = RetryArmed(internalState', clock')
           /\ timeoutTime' = Wrap(clock' + TimeoutWindow(internalState'))
      /\ QuietStep ]_vars

\* A step that writes a command: the timeout deadline is armed only when
\* the state is entered.
TransmitStep ==
  devOut' # devOut =>
    /\ rxBuffer' = << >>
    /\ retryTime' = RetryArmed(internalState', clock')
    /\ timeoutTime' = IF internalState' # internalState
                       THEN Wrap(clock' + TimeoutWindow(internalState'))
                       ELSE timeoutTime

\* C14: every step that writes a command clears the buffer and sets the
\* retry deadline (500 ms ahead in a wait state, disabled elsewhere); the
\* write made on entering a state also arms the timeout deadline, a resend
\* of AT leaves it as it was; a step that writes no command keeps the
\* buffer's bytes and both deadlines.
C14_ResetOnTransmitOrEntry == [][TransmitStep /\ QuietStep]_vars

\* AT resent with the timeout deadline still the one of the state's entry.
C14_Witness ==
  /\ internalState = "waitForDeviceAfterStartup"
  /\ hist.response = "needRetry"
  /\ hist.retx = 2
  /\ rxBuffer = << >>
  /\ timeoutTime # Wrap(clock + kWaitForDeviceTimeout)

\* A call of runOnce in a command state that classifies Receiving.
ReceivingStep ==
  PollStep /\ internalState \in CommandStates /\ hist'.response = "receiving" =>
    /\ devOut' = devOut
    /\ internalState' = internalState
    /\ retryTime' = retryTime
    /\ timeoutTime' = timeoutTime
    /\ genericNextInternalState' = genericNextInternalState
    /\ rxBuffer' = rxBuffer \o devIn
    /\ hist'.events = << "receive" >>

\* C15: a call of runOnce that classifies Receiving writes nothing and
\* keeps the state, both deadlines and the state to enter on success; the
\* receive buffer grows by the bytes read from the Stream and changes in no
\* other way.
C15_ReceivingIsNoOp == [][ReceivingStep]_vars

\* Receiving in SetRole with two bytes read.
C15_Witness ==
  /\ hist.response = "receiving"
  /\ hist.polledIn = "setRole"
  /\ internalState = "setRole"
  /\ Len(rxBuffer) = 2

\* The earlier of the deadlines that are armed.
EarliestDeadline ==
  IF retryTime > 0 /\ retryTime < timeoutTime THEN retryTime ELSE timeoutTime

\* A step that leaves a command state.
LeaveStep ==
  internalState \in CommandStates /\ internalState' # internalState =>
    /\ PollStep
    /\ clock >= EarliestDeadline
    /\ elapsed - hist.enteredAt >= kRetryTimeout

\* C16 (clock not wrapping): a command state is left only by a call of
\* runOnce made at or after the earlier of its armed deadlines, hence not
\* before 500 ms after it was entered, and WaitingForConnection is current
\* only 3000 ms or more after the first call of runOnce.
C16_DeadlineBoundary ==
  /\ [][LeaveStep]_vars
  /\ [](internalState = "waitingForConnection" =>
          elapsed >= hist.t0 + 2 * kRetryTimeout + 4 * kDefaultTimeout)

\* WaitingForConnection entered by the first call made 3000 ms after the
\* first one, every byte having been delivered before its deadline.
C16_Witness ==
  /\ internalState = "waitingForConnection"
  /\ hist.polledIn = "waitForDeviceAfterReset"
  /\ hist.timely
  /\ hist.lastPollAt < hist.t0 + 2 * kRetryTimeout + 4 * kDefaultTimeout + Quantum

\* C17: with runOnce called again and again and a clock (not wrapping) that
\* keeps ticking, whatever the device delivers, the controller is eventually
\* in WaitingForConnection or Panicked: AT is resent fewer than
\* 5000 / 500 times in a wait state, and a call made at or after the timeout
\* of a command state leaves that state.
C17_SetupTerminates ==
  /\ <>(internalState \in {"waitingForConnection", "panicked"})
  /\ [](hist.retx * kRetryTimeout < kWaitForDeviceTimeout)
  /\ [](hist.polledIn \in CommandStates
          /\ hist.held >= TimeoutWindow(hist.polledIn)
          => internalState # hist.polledIn)

\* Setup ended in Panicked by the timeout of a command state the device
\* had sent bytes in earlier states of.
C17_Witness ==
  /\ internalState = "panicked"
  /\ hist.polledIn = "setNotification"
  /\ hist.response = "timedOut"
  /\ hist.successes = 3

\* The bytes receiveResponse classifies in a call made now.
Collected == rxBuffer \o devIn

\* A call of runOnce that classifies Success: every classified byte answers
\* a transmission of the pending command (the one made on entering the
\* state or one of the hist.retx resends).
AttributedStep ==
  PollStep /\ internalState \in CommandStates /\ hist'.response = "success" =>
    \A i \in 1..Len(Collected) : Collected[i] >= Len(devOut) - hist.retx

\* C18: whenever a command is classified Success, every byte of the
\* receive buffer was sent by the device in answer to that command; a byte
\* that answers an earlier command, or none, is never counted.
C18_ResponseAttributed == [][AttributedStep]_vars

\* The reply to AT+RESET, delivered after Reset timed out, accepted as the
\* response to the AT that followed.
C18_LateResetReply ==
  /\ internalState = "waitingForConnection"
  /\ hist.successes = 5
  /\ rxBuffer = << 5 >>
  /\ devOut = Expected(name)

\* The states handled by handleGenericCommand, and the state the transition
\* table enters from each on Success.
GenericStates == { "setName", "setRole", "setNotification" }
SuccessTarget(st) ==
  CASE st = "setName" -> "setRole"
    [] st = "setRole" -> "setNotification"
    [] st = "setNotification" -> "reset"

\* A call of runOnce that classifies Success in a generic state.
GenericSuccessStep ==
  PollStep /\ internalState \in GenericStates /\ hist'.response = "success" =>
    internalState' = SuccessTarget(internalState)

\* C19: in SetName, SetRole and SetNotification the state to enter on
\* success is the transition table's (SetRole, SetNotification, Reset), and
\* Success in these states enters that state.
C19_NextStateFresh ==
  /\ [](internalState \in GenericStates =>
          genericNextInternalState = SuccessTarget(internalState))
  /\ [][GenericSuccessStep]_vars

\* Reset entered from SetNotification on Success.
C19_Witness ==
  /\ internalState = "reset"
  /\ hist.polledIn = "setNotification"
  /\ hist.response = "success"
  /\ genericNextInternalState = "reset"

\* The number of e's in the events of one call.
Count(ev, e) == Cardinality({ i \in 1..Len(ev) : ev[i] = e })

\* No "receive" follows a "transition" in the events of one call.
TransitionIsLast(ev) ==
  \A i \in 1..Len(ev) : \A j \in 1..Len(ev) :
    i < j /\ ev[i] = "transition" => ev[j] # "receive"

\* One step does one unit of work at most.
UnitStep ==
  /\ Len(devOut') <= Len(devOut) + 1
  /\ Len(hist'.trail) <= Len(hist.trail) + 1
  /\ PollStep =>
       /\ Count(hist'.events, "receive") <= 1
       /\ Count(hist'.events, "send") <= 1
       /\ Count(hist'.events, "transition") <= 1
       /\ TransitionIsLast(hist'.events)

\* C20: a call of runOnce writes one command at most, makes one transition
\* at most and runs receiveResponse once at most, never after a transition
\* made in the same call; WaitingForConnection is current only after seven
\* transitions, hence after seven calls or more.
C20_OneUnitPerPoll ==
  /\ [][UnitStep]_vars
  /\ [](internalState = "waitingForConnection" => Len(hist.trail) = 8)

\* SetName entered by the call that classified the answer to the first AT.
C20_Witness ==
  /\ internalState = "setName"
  /\ hist.events = << "receive", "send", "transition" >>
  /\ Len(hist.trail) = 3
  /\ Len(devOut) = 2
====
